---- MODULE Spec2Model ----
(***************************************************************************)
(* Aggregate energy-service demand of the two demand sectors of            *)
(* objects/sectors/source: BuildingDemandSector (the "simple" strategy)    *)
(* and TranSector (the "segmented" strategy).                              *)
(*                                                                         *)
(* A double is modelled as an exact extended rational <<n, d>>:            *)
(*   d > 0        the finite value n/d (in lowest terms)                   *)
(*   <<1, 0>>     +infinity      <<-1, 0>>  -infinity                      *)
(*   <<0, 0>>     NaN                                                      *)
(* so that a division by zero produces what IEEE arithmetic produces.      *)
(* Rounding is outside the model, and so is the sign of a zero.            *)
(* Elasticities and the time step take integer values, for which pow is    *)
(* exact.                                                                  *)
(***************************************************************************)
EXTENDS Integers, Sequences, FiniteSets, TLC

(* ------------------------------ bounds -------------------------------- *)

\* Number of model periods (modeltime->getmaxper()).
MaxPer == 3

Periods == 0 .. (MaxPer - 1)

(* --------------------------- double arithmetic ------------------------ *)

Abs(n) == IF n < 0 THEN -n ELSE n

Sign(n) == IF n < 0 THEN -1 ELSE IF n > 0 THEN 1 ELSE 0

RECURSIVE GCD(_, _)
GCD(a, b) == IF b = 0 THEN a ELSE GCD(b, a % b)

\* n/d in lowest terms with a non-negative denominator.
Norm(n, d) ==
    IF d = 0 THEN <<Sign(n), 0>>
    ELSE LET g == GCD(Abs(n), Abs(d))
             s == IF d < 0 THEN -1 ELSE 1
         IN  <<(s * n) \div g, (s * d) \div g>>

Num(n) == <<n, 1>>
Zero == <<0, 1>>
One == <<1, 1>>
Half == <<1, 2>>
PosInf == <<1, 0>>
NaN == <<0, 0>>

IsFinite(x) == x[2] > 0
IsNaN(x) == x = NaN

FNeg(x) == <<-x[1], x[2]>>

FMul(x, y) == Norm(x[1] * y[1], x[2] * y[2])

\* 1/x: 1/0 = inf, 1/inf = 0, 1/NaN = NaN.
FInv(x) == IF x[1] < 0 THEN Norm(-x[2], -x[1]) ELSE Norm(x[2], x[1])

FDiv(x, y) == FMul(x, FInv(y))

FAdd(x, y) ==
    IF x[2] = 0 /\ y[2] = 0
    THEN (IF x = y THEN x ELSE NaN)
    ELSE Norm(x[1] * y[2] + y[1] * x[2], x[2] * y[2])

FSub(x, y) == FAdd(x, FNeg(y))

\* x < 0 and x >= 0 on doubles: both are false of NaN.
FLt0(x) == x[1] < 0
FGe0(x) == x[1] >= 0 /\ ~IsNaN(x)

\* pow( x, k ) for an integer exponent k: pow( x, 0 ) = 1 for every x.
RECURSIVE pow(_, _)
pow(x, k) ==
    IF k = 0 THEN One
    ELSE IF k > 0 THEN FMul(x, pow(x, k - 1))
    ELSE FInv(pow(x, -k))

(* ------------------------------ inputs -------------------------------- *)

\* A per-period vector with one value for period 0, one for period 1, and one
\* for every later period.
PerVec(a, b, c) == [p \in Periods |-> IF p = 0 THEN a ELSE IF p = 1 THEN b ELSE c]

ConstVec(a) == [p \in Periods |-> a]

\* What gdp->getBestScaledGDPperCap(period) and gdp->getApproxScaledGDP(period)
\* return to one call of aggdemand.
Drivers ==
    { [perCap |-> Zero,   total |-> One],
      [perCap |-> One,    total |-> Num(2)],
      [perCap |-> Num(2), total |-> Num(2)] }

IElasticityVecs == { ConstVec(1), PerVec(1, 1, 0) }

\* The own-price elasticities and the sector prices of a configuration.
PriceConfigs ==
    { [pElasticity |-> ConstVec(0),  sectorprice |-> ConstVec(One)],
      [pElasticity |-> ConstVec(-1), sectorprice |-> PerVec(One, One, Num(2))] }

\* baseservice as read in: -1 is the constructor's "not set".
BaseServiceVecs ==
    { PerVec(ab[1], ab[2], c) :
        ab \in { <<Num(-1), Num(-1)>>, <<Num(2), Num(3)>>, <<Num(-1), Num(3)>> },
        c \in {Num(-1), Zero, Num(2)} }

\* service as read in for the two base periods; later periods hold the
\* vector's default.
ServiceVecs == { PerVec(Num(2), Num(3), Zero) }
PercentLicensedVecs == { ConstVec(One), ConstVec(Half) }
\* aeei of a sector driven on its own, and of the sector driven in the region's
\* loop (with and without a trend).
AeeiVecs == { ConstVec(One) }
RunAeeiVecs == { ConstVec(Zero), ConstVec(One) }

\* What getCalOutput( period ) can return.
CalOutputs == { Num(4) }

\* modeltime->gettimestep( period )
gettimestep(period) == 2


(* ------------------------- the sector objects ------------------------- *)

\* baseScaler = -1 of the BuildingDemandSector constructor: "not set".
BuildingUnsetScaler == Num(-1)

\* The value TranSector's scalers hold before the first fit: the unset
\* (negative) sentinel of the data model.
TranUnsetScaler == Num(-1)

\* BuildingDemandSector::BuildingDemandSector, then the configuration read in
\* by XMLDerivedClassParse.
NewBuildingDemandSector(perCapitaBased, pElasticity, iElasticity, sectorprice, baseService) ==
    [ name                 |-> "building",
      perCapitaBased       |-> perCapitaBased,
      pElasticity          |-> pElasticity,
      iElasticity          |-> iElasticity,
      sectorprice          |-> sectorprice,
      baseScaler           |-> BuildingUnsetScaler,
      baseService          |-> baseService,
      service              |-> ConstVec(Zero),
      servicePreTechChange |-> ConstVec(Zero),
      output               |-> ConstVec(Zero) ]

\* TranSector::TranSector (percentLicensed defaults to 1.0), then the
\* configuration read in by XMLDerivedClassParse.
NewTranSector(perCapitaBased, pElasticity, iElasticity, sectorprice, service, percentLicensed, aeei) ==
    [ name                 |-> "tran",
      perCapitaBased       |-> perCapitaBased,
      pElasticity          |-> pElasticity,
      iElasticity          |-> iElasticity,
      sectorprice          |-> sectorprice,
      aeei                 |-> aeei,
      percentLicensed      |-> percentLicensed,
      baseScaler           |-> TranUnsetScaler,
      baseScalerNotLic     |-> TranUnsetScaler,
      priceRatio           |-> One,
      priceRatioNotLic     |-> One,
      service              |-> service,
      servicePreTechChange |-> ConstVec(Zero),
      output               |-> ConstVec(Zero) ]

\* One entry of main_log.
Warning(period) ==
    [level |-> "WARNING", text |-> "baseScaler being set to 1", period |-> period,
     scaleFactor |-> Zero]

Debug(period, scaleFactor) ==
    [level |-> "DEBUG", text |-> "Calibrated Demand Scaled by", period |-> period,
     scaleFactor |-> scaleFactor]

\* setServiceDemand( service[ period ], period ): "sets the output".
setServiceDemand(self, demand, period) ==
    [self EXCEPT !.output[period] = demand]

\* setoutput( demand, period, gdp ); sumOutput( period ): the demand is handed
\* to the subsectors and their outputs are summed back into output[ period ].
setoutput(self, demand, period) ==
    [self EXCEPT !.output[period] = demand]

(* ----------------------- BuildingDemandSector ------------------------- *)

\* Variant: the test written as baseScaler <= 0.
BuildingScalerNotPositive(self) == FLt0(self.baseScaler) \/ self.baseScaler = Zero

\* if ( baseScaler < 0 )
BuildingScalerNotSet(self) == FLt0(self.baseScaler)

\* BuildingDemandSector::initCalc: the new object and what main_log receives.
BuildingInitCalc(self, period) ==
    IF BuildingScalerNotSet(self)
    THEN [self |-> [self EXCEPT !.baseScaler = One], log |-> <<Warning(period)>>]
    ELSE [self |-> self, log |-> <<>>]

\* double priceRatio = ( period > 1 ) ? sectorprice[ period ]/sectorprice[ period - 1 ] : 1;
BuildingPriceRatio(self, period) ==
    IF period > 1
    THEN FDiv(self.sectorprice[period], self.sectorprice[period - 1])
    ELSE One

\* Variant: the test written as baseService[ period ] > 0.
BuildingIsCalibrationPeriodStrict(self, period) ==
    FGe0(self.baseService[period]) /\ self.baseService[period] # Zero

\* if ( baseService[ period ] >= 0 )
BuildingIsCalibrationPeriod(self, period) == FGe0(self.baseService[period])

\* calculate base year scalers
BuildingFitScaler(self, g, period) ==
    LET priceRatio == BuildingPriceRatio(self, period)
        scaler == FDiv(self.baseService[period], pow(priceRatio, self.pElasticity[period]))
    IN  IF self.perCapitaBased
        THEN FDiv(scaler,
                  FDiv(FMul(pow(g.perCap, self.iElasticity[period]), g.total), g.perCap))
        ELSE FDiv(scaler, pow(g.total, self.iElasticity[period]))

\* for non-base year
BuildingProjectDemand(self, g, period) ==
    LET priceRatio == BuildingPriceRatio(self, period)
    IN  IF self.perCapitaBased
        THEN FMul(FMul(FMul(self.baseScaler, pow(priceRatio, self.pElasticity[period])),
                       pow(g.perCap, self.iElasticity[period])),
                  FDiv(g.total, g.perCap))
        ELSE FMul(FMul(self.baseScaler, pow(priceRatio, self.pElasticity[period])),
                  pow(g.total, self.iElasticity[period]))

\* BuildingDemandSector::aggdemand: the new object and the branch taken.
BuildingAggdemand(self, g, period) ==
    LET calibrate == BuildingIsCalibrationPeriod(self, period)
        scaled    == IF calibrate
                     THEN [self EXCEPT !.baseScaler = BuildingFitScaler(self, g, period)]
                     ELSE self
        ser_dmd   == IF calibrate
                     THEN self.baseService[period]
                     ELSE BuildingProjectDemand(self, g, period)
        stored    == [scaled EXCEPT !.servicePreTechChange[period] = ser_dmd,
                                    !.service[period] = ser_dmd]
        sunk      == setoutput(setServiceDemand(stored, stored.service[period], period),
                               stored.service[period], period)
    IN  [self |-> sunk, branch |-> IF calibrate THEN "calibration" ELSE "projection"]

(* ----------------------------- TranSector ----------------------------- *)

\* Variant: only period 0 is a base period.
TranIsCalibrationPeriodFirstOnly(period) == period = 0

\* Variant: period 2 is a base period as well.
TranIsCalibrationPeriodThree(period) == period <= 2

\* if (period == 0 || period == 1)
TranIsCalibrationPeriod(period) == period = 0 \/ period = 1

\* Variant: the income term enters the fit with the exponent of the projection.
TranFitScalerPositiveExponent(self, g, period, share, priceRatio) ==
    IF self.perCapitaBased
    THEN FDiv(FMul(FMul(self.service[period], share),
                   pow(g.perCap, self.iElasticity[period])),
              FDiv(g.total, g.perCap))
    ELSE FMul(FMul(FMul(self.service[period], share),
                   pow(priceRatio, -self.pElasticity[period])),
              pow(g.total, self.iElasticity[period]))

\* calculate base year scalers (priceRatio is 1.0 here)
TranFitScaler(self, g, period, share, priceRatio) ==
    IF self.perCapitaBased
    THEN FDiv(FMul(FMul(self.service[period], share),
                   pow(g.perCap, -self.iElasticity[period])),
              FDiv(g.total, g.perCap))
    ELSE FMul(FMul(FMul(self.service[period], share),
                   pow(priceRatio, -self.pElasticity[period])),
              pow(g.total, -self.iElasticity[period]))

\* for non-base year; self already holds this period's price ratios
TranProjectDemand(self, g, period) ==
    IF self.perCapitaBased
    THEN FMul(FAdd(FMul(FMul(self.baseScaler,
                             pow(self.priceRatio, self.pElasticity[period])),
                        pow(g.perCap, self.iElasticity[period])),
                   FMul(FMul(self.baseScalerNotLic,
                             pow(self.priceRatioNotLic, self.pElasticity[period])),
                        pow(g.perCap, self.iElasticity[period]))),
              FDiv(g.total, g.perCap))
    ELSE FMul(FMul(self.baseScaler, pow(self.priceRatio, self.pElasticity[period])),
              pow(g.total, self.iElasticity[period]))

\* adjust demand for AEEI, autonomous end-use energy intensity
TranApplyAeei(self, ser_dmd, period) ==
    FDiv(ser_dmd, pow(FAdd(One, self.aeei[period]), gettimestep(period)))

\* TranSector::aggdemand: the new object and the branch taken.
TranAggdemand(self, g, period) ==
    LET calibrate == TranIsCalibrationPeriod(period)
        ratio     == IF calibrate
                     THEN One
                     ELSE FDiv(self.sectorprice[period], self.sectorprice[period - 1])
        priced    == [self EXCEPT !.priceRatio = ratio, !.priceRatioNotLic = ratio]
        scaled    == IF calibrate
                     THEN [priced EXCEPT
                             !.baseScaler =
                                 TranFitScaler(priced, g, period,
                                               priced.percentLicensed[period],
                                               priced.priceRatio),
                             !.baseScalerNotLic =
                                 TranFitScaler(priced, g, period,
                                               FSub(One, priced.percentLicensed[period]),
                                               priced.priceRatioNotLic)]
                     ELSE priced
        ser_dmd   == IF calibrate
                     THEN self.service[period]
                     ELSE TranProjectDemand(scaled, g, period)
        stored    == [scaled EXCEPT
                        !.servicePreTechChange[period] = ser_dmd,
                        !.service[period] = IF calibrate
                                            THEN self.service[period]
                                            ELSE TranApplyAeei(self, ser_dmd, period)]
        mirrored  == [stored EXCEPT !.output[period] = stored.service[period]]
        sunk      == setoutput(mirrored, mirrored.service[period], period)
    IN  [self |-> sunk, branch |-> IF calibrate THEN "calibration" ELSE "projection"]

\* Variant: the demand is rescaled whether or not all inputs are fixed.
TranCheckSectorCalDataUnguarded(self, allFixed, calOutput, period) ==
    LET scaleFactor == FDiv(calOutput, self.service[period])
    IN  [self |-> [self EXCEPT !.service[period] = calOutput],
         log  |-> <<Debug(period, scaleFactor)>>]

\* TranSector::checkSectorCalData, with what inputsAllFixed( period, "allInputs" )
\* and getCalOutput( period ) return: the new object and what main_log receives.
TranCheckSectorCalData(self, allFixed, calOutput, period) ==
    IF allFixed
    THEN LET scaleFactor == FDiv(calOutput, self.service[period])
         IN  [self |-> [self EXCEPT !.service[period] = calOutput],
              log  |-> <<Debug(period, scaleFactor)>>]
    ELSE [self |-> self, log |-> <<>>]


(* ------------------------------- state -------------------------------- *)

VARIABLES
    sectors,     \* the region's demand sectors, by name
    period,      \* the model period the run is in
    gdp,         \* the drivers of the GDP object the region's loop passes on
    mainLog,     \* what the latest call wrote to main_log
    pc,          \* where the region's loop over its sectors stands
    written,     \* history: <<sector, period>> once aggdemand has stored service[ period ]
    earlyRead,   \* history: this period's reads of service[ period ] before that store
    lastFit      \* history: per sector, the period and drivers of the latest scaler fit

vars == <<sectors, period, gdp, mainLog, pc, written, earlyRead, lastFit>>

NoDrivers == [perCap |-> One, total |-> One]

NoFit == [period |-> -1, gdp |-> NoDrivers]

BuildingConfigs ==
    { NewBuildingDemandSector(pcb, pr.pElasticity, ie, pr.sectorprice, bs) :
        pcb \in BOOLEAN, ie \in IElasticityVecs, pr \in PriceConfigs,
        bs \in BaseServiceVecs }

TranConfigs ==
    { NewTranSector(pcb, pr.pElasticity, ie, pr.sectorprice, sv, pl, ae) :
        pcb \in BOOLEAN, ie \in IElasticityVecs, pr \in PriceConfigs,
        sv \in ServiceVecs, pl \in PercentLicensedVecs, ae \in AeeiVecs }

History ==
    /\ period = 0
    /\ mainLog = <<>>
    /\ written = {}
    /\ earlyRead = {}
    /\ lastFit = [s \in DOMAIN sectors |-> NoFit]

\* A region holding one demand sector, constructed and configured; each call
\* of aggdemand is given its own drivers.
Init ==
    /\ \/ \E b \in BuildingConfigs : sectors = [s \in {"building"} |-> b]
       \/ \E t \in TranConfigs : sectors = [s \in {"tran"} |-> t]
    /\ pc = "calls"
    /\ gdp = NoDrivers
    /\ History

(* ------------------------------ actions ------------------------------- *)

Has(s) == s \in DOMAIN sectors

\* A read of service[ period ] by `op` is early when aggdemand has not stored
\* service[ period ] yet.
NoteRead(s, op, reads) ==
    IF reads /\ <<s, period>> \notin written
    THEN earlyRead \cup {[sector |-> s, op |-> op, period |-> period]}
    ELSE earlyRead

\* BuildingDemandSector::aggdemand reads service[ period ] only after storing it.
BuildingAggdemandReadsService(p) == FALSE

\* TranSector::aggdemand reads service[ period ] before storing it in the
\* branch that fits the scalers, and only there.
TranAggdemandReadsService(p) == TranIsCalibrationPeriod(p)

CallBuildingInitCalc ==
    LET r == BuildingInitCalc(sectors["building"], period)
    IN  /\ sectors' = [sectors EXCEPT !["building"] = r.self]
        /\ mainLog' = r.log
        /\ UNCHANGED <<period, gdp, written, earlyRead, lastFit>>

CallBuildingAggdemand(g) ==
    LET r == BuildingAggdemand(sectors["building"], g, period)
    IN  /\ sectors' = [sectors EXCEPT !["building"] = r.self]
        /\ mainLog' = <<>>
        /\ earlyRead' = NoteRead("building", "aggdemand",
                                 BuildingAggdemandReadsService(period))
        /\ written' = written \cup {<<"building", period>>}
        /\ lastFit' = IF r.branch = "calibration"
                      THEN [lastFit EXCEPT !["building"] = [period |-> period, gdp |-> g]]
                      ELSE lastFit
        /\ UNCHANGED <<period, gdp>>

CallTranAggdemand(g) ==
    LET r == TranAggdemand(sectors["tran"], g, period)
    IN  /\ sectors' = [sectors EXCEPT !["tran"] = r.self]
        /\ mainLog' = <<>>
        /\ earlyRead' = NoteRead("tran", "aggdemand", TranAggdemandReadsService(period))
        /\ written' = written \cup {<<"tran", period>>}
        /\ lastFit' = IF r.branch = "calibration"
                      THEN [lastFit EXCEPT !["tran"] = [period |-> period, gdp |-> g]]
                      ELSE lastFit
        /\ UNCHANGED <<period, gdp>>

CallTranCheckSectorCalData(allFixed, calOutput) ==
    LET r == TranCheckSectorCalData(sectors["tran"], allFixed, calOutput, period)
    IN  /\ sectors' = [sectors EXCEPT !["tran"] = r.self]
        /\ mainLog' = r.log
        /\ earlyRead' = NoteRead("tran", "checkSectorCalData", allFixed)
        /\ UNCHANGED <<period, gdp, written, lastFit>>

\* The calls of one period, in any order and any number.
InitCalc ==
    /\ pc = "calls"
    /\ Has("building")
    /\ CallBuildingInitCalc
    /\ UNCHANGED pc

AggdemandBuilding ==
    /\ pc = "calls"
    /\ Has("building")
    /\ \E g \in Drivers : CallBuildingAggdemand(g)
    /\ UNCHANGED pc

AggdemandTran ==
    /\ pc = "calls"
    /\ Has("tran")
    /\ \E g \in Drivers : CallTranAggdemand(g)
    /\ UNCHANGED pc

CheckSectorCalData ==
    /\ pc = "calls"
    /\ Has("tran")
    /\ \E allFixed \in BOOLEAN, calOutput \in CalOutputs :
           CallTranCheckSectorCalData(allFixed, calOutput)
    /\ UNCHANGED pc

\* The run moves on to the next model period.
NextPeriod ==
    /\ pc = "calls"
    /\ period + 1 < MaxPer
    /\ period' = period + 1
    /\ mainLog' = <<>>
    /\ written' = {}
    /\ earlyRead' = {}
    /\ UNCHANGED <<sectors, gdp, pc, lastFit>>

Next ==
    \/ InitCalc
    \/ AggdemandBuilding
    \/ AggdemandTran
    \/ CheckSectorCalData
    \/ NextPeriod

Spec == Init /\ [][Next]_vars

(* ---- the region's loop: both sectors, one call each, period by period --- *)

\* The simple and the segmented sector of one region, configured alike.
RunInit ==
    /\ \E pcb \in BOOLEAN, ie \in IElasticityVecs, pr \in PriceConfigs,
          bs \in BaseServiceVecs, sv \in ServiceVecs, pl \in PercentLicensedVecs,
          ae \in RunAeeiVecs :
           sectors = [s \in {"building", "tran"} |->
                        IF s = "building"
                        THEN NewBuildingDemandSector(pcb, pr.pElasticity, ie,
                                                     pr.sectorprice, bs)
                        ELSE NewTranSector(pcb, pr.pElasticity, ie, pr.sectorprice,
                                           sv, pl, ae)]
    /\ pc = "initCalc"
    /\ gdp \in Drivers
    /\ History

RunInitCalc ==
    /\ pc = "initCalc"
    /\ CallBuildingInitCalc
    /\ pc' = "building"

RunAggdemandBuilding ==
    /\ pc = "building"
    /\ CallBuildingAggdemand(gdp)
    /\ pc' = "tran"

RunAggdemandTran ==
    /\ pc = "tran"
    /\ CallTranAggdemand(gdp)
    /\ pc' = "done"

RunNextPeriod ==
    /\ pc = "done"
    /\ period + 1 < MaxPer
    /\ period' = period + 1
    /\ gdp' \in Drivers
    /\ pc' = "initCalc"
    /\ mainLog' = <<>>
    /\ written' = {}
    /\ earlyRead' = {}
    /\ UNCHANGED <<sectors, lastFit>>

RunNext ==
    \/ RunInitCalc
    \/ RunAggdemandBuilding
    \/ RunAggdemandTran
    \/ RunNextPeriod

RunSpec == RunInit /\ [][RunNext]_vars

(* ------------------------------ properties ---------------------------- *)

B == sectors["building"]
T == sectors["tran"]

\* The period rule of each strategy, read off the configuration.
SimpleCalibrationPeriod(p) == FGe0(B.baseService[p])
SegmentedCalibrationPeriod(p) == p \in {0, 1}

\* Two results agree: the same value, unless neither is finite.
Same(x, y) == (IsFinite(x) \/ IsFinite(y)) => x = y

WarningLogged == \E i \in DOMAIN mainLog : mainLog[i].level = "WARNING"

\* C1 Calibration pass-through: a call of aggdemand for a calibration period
\* leaves service[ period ] and servicePreTechChange[ period ] equal to
\* baseService[ period ] (simple strategy), and leaves service[ period ] as it
\* was with servicePreTechChange[ period ] equal to it (segmented strategy,
\* periods 0 and 1), whatever the drivers, price ratio and elasticities are.
CalibrationPassThrough ==
    [][ /\ \A g \in Drivers :
              (Has("building") /\ CallBuildingAggdemand(g) /\ SimpleCalibrationPeriod(period))
              => /\ B'.service[period] = B.baseService[period]
                 /\ B'.servicePreTechChange[period] = B.baseService[period]
        /\ \A g \in Drivers :
              (Has("tran") /\ CallTranAggdemand(g) /\ SegmentedCalibrationPeriod(period))
              => /\ T'.service[period] = T.service[period]
                 /\ T'.servicePreTechChange[period] = T'.service[period]
      ]_vars

\* A calibration period of the simple strategy after aggdemand, in per-capita
\* mode and with a non-trivial income elasticity.
CalibrationPassThroughReached ==
    /\ Has("building")
    /\ <<"building", period>> \in written
    /\ SimpleCalibrationPeriod(period)
    /\ B.perCapitaBased
    /\ B.iElasticity[period] # 0
    /\ B.service[period] = B.baseService[period]
    /\ B.servicePreTechChange[period] = B.baseService[period]

\* C2 Uncalibrated-scaler fallback: whenever the projection branch of
\* aggdemand runs while the scaler is still at its unset (negative) sentinel, a
\* warning is emitted and 1.0 is used in its place, so that service[ period ]
\* is finite and non-negative.
UncalibratedScalerFallback ==
    [][ /\ \A g \in Drivers :
              ( /\ Has("building") /\ CallBuildingAggdemand(g)
                /\ ~SimpleCalibrationPeriod(period)
                /\ lastFit["building"] = NoFit /\ FLt0(B.baseScaler) )
              => /\ WarningLogged'
                 /\ IsFinite(B'.service[period]) /\ FGe0(B'.service[period])
        /\ \A g \in Drivers :
              ( /\ Has("tran") /\ CallTranAggdemand(g)
                /\ ~SegmentedCalibrationPeriod(period)
                /\ lastFit["tran"] = NoFit /\ FLt0(T.baseScaler) )
              => /\ WarningLogged'
                 /\ IsFinite(T'.service[period]) /\ FGe0(T'.service[period])
      ]_vars

\* C3 A non-finite driver is fatal: a call of aggdemand in per-capita mode with
\* a per-capita GDP of zero writes none of baseScaler, baseScalerNotLic,
\* service[ period ], servicePreTechChange[ period ] and output[ period ].
NonFiniteDriverIsFatal ==
    [][ \A g \in Drivers : g.perCap = Zero =>
          /\ (Has("building") /\ B.perCapitaBased /\ CallBuildingAggdemand(g))
             => /\ B'.baseScaler = B.baseScaler
                /\ B'.service[period] = B.service[period]
                /\ B'.servicePreTechChange[period] = B.servicePreTechChange[period]
                /\ B'.output[period] = B.output[period]
          /\ (Has("tran") /\ T.perCapitaBased /\ CallTranAggdemand(g))
             => /\ T'.baseScaler = T.baseScaler
                /\ T'.baseScalerNotLic = T.baseScalerNotLic
                /\ T'.service[period] = T.service[period]
                /\ T'.servicePreTechChange[period] = T.servicePreTechChange[period]
                /\ T'.output[period] = T.output[period]
      ]_vars

Scalers(s) ==
    IF s = "building"
    THEN <<sectors[s].baseScaler>>
    ELSE <<sectors[s].baseScaler, sectors[s].baseScalerNotLic>>

\* C4 Scaler stability: once a sector's scalers have been fit in a calibration
\* period, the only step that changes them is a call of aggdemand for a
\* calibration period; initCalc, checkSectorCalData and aggdemand for any
\* other period leave them as they are.
ScalerStability ==
    [][ \A s \in DOMAIN sectors :
          (lastFit[s] # NoFit /\ Scalers(s)' # Scalers(s))
          => \E g \in Drivers :
                IF s = "building"
                THEN CallBuildingAggdemand(g) /\ SimpleCalibrationPeriod(period)
                ELSE CallTranAggdemand(g) /\ SegmentedCalibrationPeriod(period)
      ]_vars

\* The projection branch of the simple strategy has run in a period that
\* follows a fit.
ScalerStabilityReached ==
    /\ Has("building")
    /\ lastFit["building"] # NoFit
    /\ lastFit["building"].period < period
    /\ ~SimpleCalibrationPeriod(period)
    /\ <<"building", period>> \in written
    /\ IsFinite(B.baseScaler)

\* C5 Calibration reconciliation: checkSectorCalData( period ) with all inputs
\* fixed stores the calibrated total in service[ period ] and logs one debug
\* entry carrying total / (the old) service[ period ]; with not all inputs fixed
\* it changes nothing and logs nothing; either way the scalers,
\* servicePreTechChange and service of every other period are untouched.
CalibrationReconciliation ==
    [][ \A allFixed \in BOOLEAN, calOutput \in CalOutputs :
          (Has("tran") /\ CallTranCheckSectorCalData(allFixed, calOutput))
          => /\ allFixed =>
                  /\ T'.service[period] = calOutput
                  /\ mainLog' = <<Debug(period, FDiv(calOutput, T.service[period]))>>
             /\ ~allFixed => (T' = T /\ mainLog' = <<>>)
             /\ T'.baseScaler = T.baseScaler
             /\ T'.baseScalerNotLic = T.baseScalerNotLic
             /\ T'.servicePreTechChange = T.servicePreTechChange
             /\ \A q \in Periods \ {period} : T'.service[q] = T.service[q]
      ]_vars

\* checkSectorCalData has just rescaled a demand that aggdemand had computed.
CalibrationReconciliationReached ==
    /\ Has("tran")
    /\ <<"tran", period>> \in written
    /\ Len(mainLog) = 1
    /\ mainLog[1].level = "DEBUG"
    /\ mainLog[1].scaleFactor # One
    /\ IsFinite(mainLog[1].scaleFactor)
    /\ T.service[period] \in CalOutputs

\* The configurations the segment-conservation claim speaks of: every
\* percentLicensed is 1.0, the two sectors share elasticities, mode and prices,
\* and baseService is the read-in service in periods 0 and 1 and unset after.
SegmentConservationSetup ==
    /\ \A p \in Periods : T.percentLicensed[p] = One
    /\ B.pElasticity = T.pElasticity
    /\ B.iElasticity = T.iElasticity
    /\ B.perCapitaBased = T.perCapitaBased
    /\ B.sectorprice = T.sectorprice
    /\ \A p \in Periods :
          IF p < 2 THEN B.baseService[p] = T.service[p] ELSE FLt0(B.baseService[p])

\* Both sectors have computed period p.
BothDone(p) == p < period \/ (p = period /\ pc = "done")

\* C6 as stated: in such a run the segmented strategy's service[ p ] equals the
\* simple strategy's service[ p ] for every period p.
SegmentConservationAsStated ==
    SegmentConservationSetup =>
        \A p \in Periods : BothDone(p) => T.service[p] = B.service[p]

\* C6 Segment conservation, amended: in such a run the segmented strategy's
\* servicePreTechChange[ p ] agrees with the simple strategy's service[ p ] for
\* every period p, and its service[ p ] is that value in periods 0 and 1 and
\* that value divided by (1 + aeei[ p ])^timestep in every later period.
SegmentConservation ==
    SegmentConservationSetup =>
        \A p \in Periods : BothDone(p) =>
            /\ Same(T.servicePreTechChange[p], B.service[p])
            /\ Same(T.service[p],
                    IF p < 2
                    THEN B.service[p]
                    ELSE FDiv(B.service[p],
                              pow(FAdd(One, T.aeei[p]), gettimestep(p))))

\* Both sectors have projected period 2 from the scalers fit in period 1, with
\* a non-zero trend rate and a finite, non-zero demand.
SegmentConservationReached ==
    /\ Has("building") /\ Has("tran")
    /\ SegmentConservationSetup
    /\ period = 2 /\ pc = "done"
    /\ T.aeei[2] # Zero
    /\ IsFinite(B.service[2]) /\ B.service[2] # Zero
    /\ T.servicePreTechChange[2] = B.service[2]

OutputMirrorsService ==
    (Has("tran") /\ <<"tran", period>> \in written)
    => T.output[period] = T.service[period]

\* C9 Calibration-period rule: aggdemand of the simple strategy fits the
\* scaler exactly when baseService[ period ] >= 0, in every period; aggdemand
\* of the segmented strategy fits its two scalers, with both price ratios at
\* 1.0, exactly when the period is 0 or 1; a call that does not fit leaves the
\* scalers as they are.
CalibrationPeriodRule ==
    [][ /\ \A g \in Drivers :
              (Has("building") /\ CallBuildingAggdemand(g))
              => /\ SimpleCalibrationPeriod(period)
                    <=> lastFit'["building"] = [period |-> period, gdp |-> g]
                 /\ ~SimpleCalibrationPeriod(period) => B'.baseScaler = B.baseScaler
        /\ \A g \in Drivers :
              (Has("tran") /\ CallTranAggdemand(g))
              => /\ SegmentedCalibrationPeriod(period)
                    <=> lastFit'["tran"] = [period |-> period, gdp |-> g]
                 /\ SegmentedCalibrationPeriod(period)
                    => (T'.priceRatio = One /\ T'.priceRatioNotLic = One)
                 /\ ~SegmentedCalibrationPeriod(period) => Scalers("tran")' = Scalers("tran")
      ]_vars

\* The simple strategy has refit its scaler in a period after the base periods.
CalibrationPeriodRuleReached ==
    /\ Has("building")
    /\ period >= 2
    /\ lastFit["building"].period = period
    /\ SimpleCalibrationPeriod(period)
    /\ IsFinite(B.baseScaler)

\* C10 No discontinuity at the calibration boundary: when aggdemand( 2 ) of
\* the segmented strategy is given the drivers of the fit of period 1, with
\* the elasticities and the price of period 1 (a price ratio of 1.0), the
\* servicePreTechChange[ 2 ] it computes equals service[ 1 ].  (Stated for
\* non-zero drivers and for a service[ 1 ] not rescaled since the fit.)
NoDiscontinuityAtBoundary ==
    [][ \A g \in Drivers :
          ( /\ Has("tran") /\ period = 2 /\ CallTranAggdemand(g)
            /\ lastFit["tran"] = [period |-> 1, gdp |-> g]
            /\ g.perCap # Zero
            /\ T.servicePreTechChange[1] = T.service[1]
            /\ T.iElasticity[2] = T.iElasticity[1]
            /\ T.pElasticity[2] = T.pElasticity[1]
            /\ T.sectorprice[2] = T.sectorprice[1] )
          => T'.servicePreTechChange[2] = T.service[1]
      ]_vars

====
